---- MODULE Spec2Model ----
(***************************************************************************)
(* Y-chromosomal microdeletion classifier (classify-Y-del.py).             *)
(*                                                                         *)
(* The marker panel is a Python dict: here a function whose DOMAIN is the  *)
(* set of tested markers.  A marker that is no key of the panel is "not    *)
(* tested"; dict.get of such a marker yields None.                         *)
(***************************************************************************)
EXTENDS Naturals, Sequences, FiniteSets, TLC

VARIABLES markers, rows, pc, classification

vars == <<markers, rows, pc, classification>>

(* ------------------------------------------------------------------ *)
(* Python values                                                       *)
(* ------------------------------------------------------------------ *)

\* Python's None, as returned by dict.get for a missing key.
None == "None"

\* The outcome of a dict subscript d[k] whose key is missing: the call raises.
KeyError == "KeyError"

\* dict.get(key): the value, or None when the key is missing.
Get(d, key) == IF key \in DOMAIN d THEN d[key] ELSE None

\* dict.get(key, default)
GetDefault(d, key, default) == IF key \in DOMAIN d THEN d[key] ELSE default

\* Truth value of a str-or-None operand of `or` / `not`.
Truthy(v) == v # None /\ v # ""

\* Python's `a or b`.
PyOr(a, b) == IF Truthy(a) THEN a ELSE b

\* d[key] = value on a dict.
Put(d, key, value) == [k \in DOMAIN d \cup {key} |-> IF k = key THEN value ELSE d[k]]

\* d[key] as an expression: the value, or KeyError raised when the key is missing.
Subscript(d, key) == IF key \in DOMAIN d THEN d[key] ELSE KeyError

\* The empty dict {}.
EmptyDict == [k \in {} |-> None]

\* sep.join(seq)
RECURSIVE Join(_, _)
Join(seq, sep) ==
    IF Len(seq) = 0 THEN ""
    ELSE IF Len(seq) = 1 THEN seq[1]
    ELSE seq[1] \o sep \o Join(Tail(seq), sep)

(* ------------------------------------------------------------------ *)
(* Marker tables                                                       *)
(* ------------------------------------------------------------------ *)

CONTROL_MARKERS == <<"sY14", "ZFX/ZFY">>

BASIC_MARKERS ==
    [region \in {"AZFa", "AZFb", "AZFc"} |->
        CASE region = "AZFa" -> <<"sY84", "sY86">>
          [] region = "AZFb" -> <<"sY127", "sY134">>
          [] region = "AZFc" -> <<"sY254", "sY255">>]

ALL_REQUIRED_MARKERS ==
    CONTROL_MARKERS \o BASIC_MARKERS["AZFa"] \o BASIC_MARKERS["AZFb"] \o BASIC_MARKERS["AZFc"]
    \o <<"sY82", "sY1064", "sY1065", "sY1182", "sY88",
         "sY105", "sY121", "sY1224", "sY1192", "sY153",
         "sY160",
         "sY1291", "sY1191">>

EXPECTED_PRESENT_MARKERS ==
    <<"sY14", "sY82", "sY88", "sY105", "sY153", "sY160", "sY1191", "ZFX/ZFY">>

\* The two markers the classifier reads that are not in ALL_REQUIRED_MARKERS:
\* the alias spelling of the control marker and the P4/P5 marker of AZFbc.
ExtraMarkers == {"ZFX/Y", "sY116"}

Range(seq) == {seq[i] : i \in 1..Len(seq)}

\* Every marker name a row of the input file may carry.
MarkerNames == Range(ALL_REQUIRED_MARKERS) \cup ExtraMarkers

\* The statuses the loader accepts.
ValidStatus == {"present", "absent"}

(* ------------------------------------------------------------------ *)
(* check_control_markers                                               *)
(* ------------------------------------------------------------------ *)

\* check_control_markers with the sY14 test made before the ZFX/ZFY tests.
check_control_markers_SRYFirst(m) ==
    LET zfxy_status == PyOr(Get(m, "ZFX/ZFY"), Get(m, "ZFX/Y")) IN
    IF "sY14" \notin DOMAIN m
    THEN <<FALSE, "CRITICAL: sY14 (SRY) marker not tested - cannot determine sex chromosome status">>
    ELSE IF ~Truthy(zfxy_status)
    THEN <<FALSE, "CRITICAL: ZFX/ZFY control marker not tested - cannot validate results">>
    ELSE IF zfxy_status # "present"
    THEN <<FALSE, "CRITICAL: ZFX/ZFY control marker absent - technical failure or sample issue">>
    ELSE <<TRUE, "Control markers valid">>

\* Returns the pair (is_valid, message).
check_control_markers(m) ==
    LET zfxy_status == PyOr(Get(m, "ZFX/ZFY"), Get(m, "ZFX/Y")) IN
    IF ~Truthy(zfxy_status)
    THEN <<FALSE, "CRITICAL: ZFX/ZFY control marker not tested - cannot validate results">>
    ELSE IF zfxy_status # "present"
    THEN <<FALSE, "CRITICAL: ZFX/ZFY control marker absent - technical failure or sample issue">>
    ELSE IF "sY14" \notin DOMAIN m
    THEN <<FALSE, "CRITICAL: sY14 (SRY) marker not tested - cannot determine sex chromosome status">>
    ELSE <<TRUE, "Control markers valid">>

(* ------------------------------------------------------------------ *)
(* check_basic_deletion                                                *)
(* ------------------------------------------------------------------ *)

\* check_basic_deletion with an untested marker counted like an absent one.
check_basic_deletion_UntestedAsAbsent(m, region) ==
    IF region \notin DOMAIN BASIC_MARKERS THEN FALSE
    ELSE LET region_markers == BASIC_MARKERS[region] IN
         \A i \in 1..Len(region_markers) : Get(m, region_markers[i]) # "present"

check_basic_deletion(m, region) ==
    IF region \notin DOMAIN BASIC_MARKERS THEN FALSE
    ELSE LET region_markers == BASIC_MARKERS[region] IN
         \A i \in 1..Len(region_markers) :
             /\ region_markers[i] \in DOMAIN m
             /\ m[region_markers[i]] = "absent"

(* ------------------------------------------------------------------ *)
(* check_extension_markers                                             *)
(* ------------------------------------------------------------------ *)

\* The AZFa analysis with the distal boundary asking for sY1065 and sY1182
\* both absent.
ExtensionAZFa_BothDistal(m) ==
    LET proximal == IF Get(m, "sY82") = "present" /\ Get(m, "sY1064") = "absent"
                    THEN "correct" ELSE "atypical"
        distal_absent == Get(m, "sY1065") = "absent" /\ Get(m, "sY1182") = "absent"
        distal == IF Get(m, "sY88") = "present" /\ distal_absent
                  THEN "correct" ELSE "atypical"
        details == ("proximal" :> proximal) @@ ("distal" :> distal)
    IN  IF details["proximal"] = "correct" /\ details["distal"] = "correct"
        THEN [complete |-> TRUE, subtype |-> "complete", details |-> details]
        ELSE [complete |-> FALSE, subtype |-> "partial_or_atypical", details |-> details]

\* The AZFa branch of check_extension_markers.
ExtensionAZFa(m) ==
    LET proximal == IF Get(m, "sY82") = "present" /\ Get(m, "sY1064") = "absent"
                    THEN "correct" ELSE "atypical"
        distal_absent == Get(m, "sY1065") = "absent" \/ Get(m, "sY1182") = "absent"
        distal == IF Get(m, "sY88") = "present" /\ distal_absent
                  THEN "correct" ELSE "atypical"
        details == ("proximal" :> proximal) @@ ("distal" :> distal)
    IN  IF details["proximal"] = "correct" /\ details["distal"] = "correct"
        THEN [complete |-> TRUE, subtype |-> "complete", details |-> details]
        ELSE [complete |-> FALSE, subtype |-> "partial_or_atypical", details |-> details]

\* The AZFb analysis with the partial branch setting no TESE prognosis.
ExtensionAZFb_NoPrognosis(m) ==
    LET has_sY1192 == Get(m, "sY1192") = "present"
        sY1224 == ("sY1224" :> GetDefault(m, "sY1224", "not_tested"))
    IN  IF /\ Get(m, "sY105") = "present"
           /\ Get(m, "sY121") = "absent"
           /\ Get(m, "sY1192") = "absent"
           /\ Get(m, "sY153") = "present"
        THEN [complete |-> TRUE, subtype |-> "P5/proximal_P1",
              details |-> ("TESE_prognosis" :> "virtually_impossible") @@ sY1224]
        ELSE IF has_sY1192
        THEN [complete |-> FALSE, subtype |-> "partial",
              details |-> ("sY1192" :> "present") @@ sY1224]
        ELSE [complete |-> FALSE, subtype |-> "atypical", details |-> sY1224]

\* The AZFb branch of check_extension_markers.
ExtensionAZFb(m) ==
    LET has_sY1192 == Get(m, "sY1192") = "present"
        sY1224 == ("sY1224" :> GetDefault(m, "sY1224", "not_tested"))
    IN  IF /\ Get(m, "sY105") = "present"
           /\ Get(m, "sY121") = "absent"
           /\ Get(m, "sY1192") = "absent"
           /\ Get(m, "sY153") = "present"
        THEN [complete |-> TRUE, subtype |-> "P5/proximal_P1",
              details |-> ("TESE_prognosis" :> "virtually_impossible") @@ sY1224]
        ELSE IF has_sY1192
        THEN [complete |-> FALSE, subtype |-> "partial",
              details |-> ("sY1192" :> "present") @@ ("TESE_prognosis" :> "possible") @@ sY1224]
        ELSE [complete |-> FALSE, subtype |-> "atypical", details |-> sY1224]

\* The AZFc analysis with the two sY160 outcomes exchanged.
ExtensionAZFc_Swapped(m) ==
    IF "sY160" \notin DOMAIN m
    THEN [complete |-> FALSE, subtype |-> "unknown_terminal_status", details |-> EmptyDict]
    ELSE IF m["sY160"] = "absent"
    THEN [complete |-> TRUE, subtype |-> "b2/b4",
          details |-> ("terminal" :> FALSE) @@ ("TESE_prognosis" :> "approximately_50_percent")]
    ELSE [complete |-> TRUE, subtype |-> "terminal",
          details |-> ("terminal" :> TRUE) @@ ("karyotype_recommended" :> TRUE)]

\* The AZFc branch of check_extension_markers.
ExtensionAZFc(m) ==
    IF "sY160" \notin DOMAIN m
    THEN [complete |-> FALSE, subtype |-> "unknown_terminal_status", details |-> EmptyDict]
    ELSE IF m["sY160"] = "present"
    THEN [complete |-> TRUE, subtype |-> "b2/b4",
          details |-> ("terminal" :> FALSE) @@ ("TESE_prognosis" :> "approximately_50_percent")]
    ELSE [complete |-> TRUE, subtype |-> "terminal",
          details |-> ("terminal" :> TRUE) @@ ("karyotype_recommended" :> TRUE)]

check_extension_markers(m, region) ==
    CASE region = "AZFa" -> ExtensionAZFa(m)
      [] region = "AZFb" -> ExtensionAZFb(m)
      [] region = "AZFc" -> ExtensionAZFc(m)
      [] OTHER -> [complete |-> FALSE, subtype |-> "unknown", details |-> EmptyDict]

(* ------------------------------------------------------------------ *)
(* check_azfbc_deletion, check_grgr_deletion                           *)
(* ------------------------------------------------------------------ *)

\* check_azfbc_deletion asking for sY121 and sY1192 absent as well, the AZFbc
\* row of EXPECTED_ABSENT_IN_DELETIONS.
check_azfbc_deletion_Strict(m) ==
    LET required_absent == <<"sY127", "sY134", "sY254", "sY255", "sY121", "sY1192">>
        subtype == IF "sY116" \in DOMAIN m
                   THEN (IF m["sY116"] = "absent" THEN "P5/distal_P1" ELSE "P4/distal_P1")
                   ELSE "undetermined_P4_P5"
        tese == IF "sY116" \in DOMAIN m
                THEN (IF m["sY116"] = "absent" THEN "virtually_impossible" ELSE "may_be_positive")
                ELSE "unknown"
        terminal == IF "sY160" \in DOMAIN m /\ m["sY160"] = "absent" THEN "_TERMINAL" ELSE ""
    IN  IF \E i \in 1..Len(required_absent) :
               required_absent[i] \notin DOMAIN m \/ m[required_absent[i]] # "absent"
        THEN <<FALSE, "">>
        ELSE <<TRUE, "COMPLETE_AZFBC_DELETION_" \o subtype \o terminal
                     \o " (TESE: " \o tese \o ")">>

\* Returns the pair (is_azfbc, message).
check_azfbc_deletion(m) ==
    LET required_absent == <<"sY127", "sY134", "sY254", "sY255">>
        subtype == IF "sY116" \in DOMAIN m
                   THEN (IF m["sY116"] = "absent" THEN "P5/distal_P1" ELSE "P4/distal_P1")
                   ELSE "undetermined_P4_P5"
        tese == IF "sY116" \in DOMAIN m
                THEN (IF m["sY116"] = "absent" THEN "virtually_impossible" ELSE "may_be_positive")
                ELSE "unknown"
        terminal == IF "sY160" \in DOMAIN m /\ m["sY160"] = "absent" THEN "_TERMINAL" ELSE ""
    IN  IF \E i \in 1..Len(required_absent) :
               required_absent[i] \notin DOMAIN m \/ m[required_absent[i]] # "absent"
        THEN <<FALSE, "">>
        ELSE <<TRUE, "COMPLETE_AZFBC_DELETION_" \o subtype \o terminal
                     \o " (TESE: " \o tese \o ")">>

\* check_grgr_deletion with the statuses of its two markers exchanged.
check_grgr_deletion_Exchanged(m) ==
    Get(m, "sY1291") = "present" /\ Get(m, "sY1191") = "absent"

check_grgr_deletion(m) ==
    Get(m, "sY1291") = "absent" /\ Get(m, "sY1191") = "present"

(* ------------------------------------------------------------------ *)
(* classify_y_chromosome_state                                         *)
(* ------------------------------------------------------------------ *)

\* The 46,XX-male test satisfied by one absent basic marker.
xx_male_signature_AnyAbsent(m) ==
    /\ Get(m, "sY14") = "absent"
    /\ GetDefault(m, "ZFX/ZFY", Get(m, "ZFX/Y")) = "present"
    /\ \E y \in {"sY84", "sY86", "sY127", "sY134", "sY254", "sY255"} :
           y \in DOMAIN m /\ Get(m, y) = "absent"

\* The 46,XX-male test reading the control marker under the key ZFX/ZFY only.
xx_male_signature_NoAlias(m) ==
    /\ Get(m, "sY14") = "absent"
    /\ Get(m, "ZFX/ZFY") = "present"
    /\ \A y \in {"sY84", "sY86", "sY127", "sY134", "sY254", "sY255"} :
           y \in DOMAIN m => Get(m, y) = "absent"

\* The 46,XX-male test with sY160 counted among the Y markers.
xx_male_signature_WithSY160(m) ==
    /\ Get(m, "sY14") = "absent"
    /\ GetDefault(m, "ZFX/ZFY", Get(m, "ZFX/Y")) = "present"
    /\ \A y \in {"sY84", "sY86", "sY127", "sY134", "sY254", "sY255", "sY160"} :
           y \in DOMAIN m => Get(m, y) = "absent"

\* The 46,XX-male test of the classifier: sY14 absent, control present and
\* every tested basic marker absent.
xx_male_signature(m) ==
    /\ Get(m, "sY14") = "absent"
    /\ GetDefault(m, "ZFX/ZFY", Get(m, "ZFX/Y")) = "present"
    /\ \A y \in {"sY84", "sY86", "sY127", "sY134", "sY254", "sY255"} :
           y \in DOMAIN m => Get(m, y) = "absent"

\* sY254 and sY255 both tested with differing statuses.
discordant_sY254_sY255(m) ==
    /\ "sY254" \in DOMAIN m
    /\ "sY255" \in DOMAIN m
    /\ m["sY254"] # m["sY255"]

\* The label of an f-string that embeds ext_result['details']['TESE_prognosis']:
\* the subscript raises KeyError when the key was never set.
WithPrognosis(prefix, ext_result) ==
    LET tese == Subscript(ext_result.details, "TESE_prognosis") IN
    IF tese = KeyError THEN KeyError ELSE prefix \o tese \o ")"

\* The expected-present markers that are not present, the untested ones included.
missing_expected_Untested(m) ==
    SelectSeq(EXPECTED_PRESENT_MARKERS, LAMBDA marker : Get(m, marker) # "present")

\* The tested expected-present markers whose status is not present, in list order.
missing_expected(m) ==
    SelectSeq(EXPECTED_PRESENT_MARKERS,
              LAMBDA marker : marker \in DOMAIN m /\ m[marker] # "present")

\* Single-region branch for AZFa.
LabelAZFa(m) ==
    LET ext_result == check_extension_markers(m, "AZFa") IN
    IF ext_result.complete
    THEN "COMPLETE_AZFA_DELETION (TESE: virtually_impossible)"
    ELSE "PARTIAL_OR_ATYPICAL_AZFA_DELETION (" \o ext_result.subtype \o ")"

\* Single-region branch for AZFb.
LabelAZFb(m) ==
    LET ext_result == check_extension_markers(m, "AZFb") IN
    IF ext_result.subtype = "P5/proximal_P1"
    THEN WithPrognosis("COMPLETE_AZFB_DELETION_P5/PROXIMAL_P1 (TESE: ", ext_result)
    ELSE IF ext_result.subtype = "partial"
    THEN WithPrognosis("PARTIAL_AZFB_DELETION (sY1192 present, TESE: ", ext_result)
    ELSE "AZFB_DELETION_ATYPICAL_PATTERN"

\* Single-region branch for AZFc.
LabelAZFc(m) ==
    LET ext_result == check_extension_markers(m, "AZFc") IN
    IF ext_result.subtype = "b2/b4"
    THEN WithPrognosis("COMPLETE_AZFC_DELETION_B2/B4 (TESE: ", ext_result)
    ELSE IF ext_result.subtype = "terminal"
    THEN "TERMINAL_AZFC_DELETION (karyotype analysis recommended)"
    ELSE "AZFC_DELETION_UNDETERMINED_TYPE (sY160 not tested)"

\* Step 3 of the classifier, given the three basic-deletion flags.
ClassifyPattern(m, azfa_deleted, azfb_deleted, azfc_deleted) ==
    IF azfa_deleted /\ azfb_deleted /\ azfc_deleted
    THEN (IF Get(m, "sY14") = "absent"
          THEN "AZFABC_DELETION_WITH_46,XX_MALE_OR_Y_CHROMOSOME_ABSENCE"
          ELSE "COMPLETE_AZFABC_DELETION")
    ELSE IF azfb_deleted /\ azfc_deleted /\ ~azfa_deleted /\ check_azfbc_deletion(m)[1]
    THEN check_azfbc_deletion(m)[2]
    ELSE IF azfa_deleted /\ ~azfb_deleted /\ ~azfc_deleted
    THEN LabelAZFa(m)
    ELSE IF azfb_deleted /\ ~azfa_deleted /\ ~azfc_deleted
    THEN LabelAZFb(m)
    ELSE IF azfc_deleted /\ ~azfa_deleted /\ ~azfb_deleted
    THEN LabelAZFc(m)
    ELSE IF check_grgr_deletion(m)
    THEN (IF ~(azfa_deleted \/ azfb_deleted \/ azfc_deleted)
          THEN "PARTIAL_AZFC_GR/GR_DELETION (population-specific risk factor)"
          ELSE "MULTIPLE_DELETIONS_INCLUDING_GR/GR")
    ELSE IF ~(azfa_deleted \/ azfb_deleted \/ azfc_deleted)
    THEN (IF Len(missing_expected(m)) > 0
          THEN "INCONSISTENT_DATA: Expected present markers are absent: "
               \o Join(missing_expected(m), ", ")
          ELSE "NO_DELETION_DETECTED")
    ELSE "UNCLASSIFIED_DELETION_PATTERN (manual review required)"

classify_y_chromosome_state(m) ==
    LET control == check_control_markers(m) IN
    IF ~control[1] THEN control[2]
    ELSE IF xx_male_signature(m)
    THEN "46,XX_MALE_OR_COMPLETE_Y_CHROMOSOME_ABSENCE"
    ELSE IF discordant_sY254_sY255(m)
    THEN "METHODOLOGICAL_ERROR: sY254 and sY255 results discordant (both should have same status)"
    ELSE ClassifyPattern(m, check_basic_deletion(m, "AZFa"),
                            check_basic_deletion(m, "AZFb"),
                            check_basic_deletion(m, "AZFc"))

(* ------------------------------------------------------------------ *)
(* Panels the runs start from                                          *)
(* ------------------------------------------------------------------ *)

\* Extra rows read on top of the starting panel.
MaxRows == 1

\* Every dict over the marker set S: each marker untested, present or absent.
PanelsOver(S) == UNION {[D -> ValidStatus] : D \in SUBSET S}

\* base updated with the entries of f.
Update(base, f) == f @@ base

\* Every panel Update(b, f) for a base b and a dict f over the markers of free.
Family(bases, free) == {Update(b, f) : b \in bases, f \in PanelsOver(free)}

\* A passing control pair.
ValidControls == ("ZFX/ZFY" :> "present") @@ ("sY14" :> "present")

\* sY14 absent next to a present basic marker: the control check passes and the
\* 46,XX-male test does not match.
AbsentSRY == ("ZFX/ZFY" :> "present") @@ ("sY14" :> "absent") @@ ("sY84" :> "present")

\* Both basic markers of the named regions absent.
Deleted(regions) ==
    [k \in UNION {Range(BASIC_MARKERS[r]) : r \in regions} |-> "absent"]

\* All basic markers of the named regions present.
Retained(regions) ==
    [k \in UNION {Range(BASIC_MARKERS[r]) : r \in regions} |-> "present"]

\* Control markers and the sY254/sY255 pair in every combination, alone and
\* next to fully deleted AZFa and AZFb regions.
ControlPanels ==
    Family({EmptyDict, Deleted({"AZFa", "AZFb"})},
           {"ZFX/ZFY", "ZFX/Y", "sY14", "sY254", "sY255"})

\* The six basic markers in every combination, controls passing.
RegionPanels ==
    Family({ValidControls},
           {"sY84", "sY86", "sY127", "sY134", "sY254", "sY255"})

\* AZFa basic-deleted, its five boundary markers in every combination.
AZFaPanels ==
    Family({Update(ValidControls, Deleted({"AZFa"}))},
           {"sY82", "sY1064", "sY88", "sY1065", "sY1182"})

\* AZFb basic-deleted, its five extension markers in every combination.
AZFbPanels ==
    Family({Update(ValidControls, Deleted({"AZFb"}))},
           {"sY105", "sY121", "sY1192", "sY153", "sY1224"})

\* The AZFc pair, sY160, sY116 and sY14 in every combination, next to AZFb
\* deleted and next to AZFa and AZFb retained.
AZFcPanels ==
    Family({Update(("ZFX/ZFY" :> "present"), Deleted({"AZFb"})),
            Update(("ZFX/ZFY" :> "present"), Retained({"AZFa", "AZFb"}))},
           {"sY254", "sY255", "sY160", "sY116", "sY14"})

\* No basic marker absent: the gr/gr pair and three expected-present markers in
\* every combination, with sY14 present and with sY14 absent.
NoDeletionPanels ==
    Family({ValidControls, AbsentSRY},
           {"sY1291", "sY1191", "sY82", "sY88", "sY160"})

\* AZFa and AZFc basic-deleted, the gr/gr pair in every combination.
GrGrWithDeletionPanels ==
    Family({Update(ValidControls, Deleted({"AZFa", "AZFc"}))}, {"sY1291", "sY1191"})

(* ------------------------------------------------------------------ *)
(* The run: rows of the marker file, then the classification           *)
(* ------------------------------------------------------------------ *)

\* A status column as the loader sees it after lower().strip(); "n/a" stands
\* for every value that is neither present nor absent.
RowStatus == ValidStatus \cup {"n/a"}

TypeOK ==
    /\ DOMAIN markers \subseteq MarkerNames
    /\ \A k \in DOMAIN markers : markers[k] \in ValidStatus
    /\ rows \in 0..MaxRows
    /\ pc \in {"parse", "done"}

InitWith(panels) ==
    /\ markers \in panels
    /\ rows = 0
    /\ pc = "parse"
    /\ classification = None

\* One row of the file: a valid status is stored (a later row for the same
\* marker overwrites the earlier one), any other status is skipped.
ReadRow(marker_name, marker_status) ==
    /\ pc = "parse"
    /\ rows < MaxRows
    /\ markers' = IF marker_status \in ValidStatus
                  THEN Put(markers, marker_name, marker_status)
                  ELSE markers
    /\ rows' = rows + 1
    /\ UNCHANGED <<pc, classification>>

\* The call classify_y_chromosome_state(markers).
Classify ==
    /\ pc = "parse"
    /\ classification' = classify_y_chromosome_state(markers)
    /\ pc' = "done"
    /\ UNCHANGED <<markers, rows>>

Next ==
    \/ \E marker_name \in MarkerNames, marker_status \in RowStatus :
           ReadRow(marker_name, marker_status)
    \/ Classify

\* The whole run, from each family of starting panels.
Init ==
    InitWith(ControlPanels \cup RegionPanels \cup AZFaPanels \cup AZFbPanels
             \cup AZFcPanels \cup NoDeletionPanels \cup GrGrWithDeletionPanels)

Spec == Init /\ [][Next]_vars

InitControl == InitWith(ControlPanels)

SpecControl == InitControl /\ [][Next]_vars

InitRegions == InitWith(RegionPanels)

SpecRegions == InitRegions /\ [][Next]_vars

InitAZFa == InitWith(AZFaPanels)

SpecAZFa == InitAZFa /\ [][Next]_vars

InitAZFc == InitWith(AZFcPanels)

SpecAZFc == InitAZFc /\ [][Next]_vars

InitNoDeletion == InitWith(NoDeletionPanels)

SpecNoDeletion == InitNoDeletion /\ [][Next]_vars

(* ------------------------------------------------------------------ *)
(* Vocabulary of the properties                                        *)
(* ------------------------------------------------------------------ *)

Done == pc = "done"

Tested(k) == k \in DOMAIN markers

IsAbsent(k) == k \in DOMAIN markers /\ markers[k] = "absent"

IsPresent(k) == k \in DOMAIN markers /\ markers[k] = "present"

\* The control check passes: the control marker, under either spelling,
\* resolves to present and sY14 is tested.
ControlPasses ==
    /\ IsPresent("ZFX/ZFY") \/ (~Tested("ZFX/ZFY") /\ IsPresent("ZFX/Y"))
    /\ Tested("sY14")

\* sY254 and sY255 both tested, one present and one absent.
Discordant ==
    \/ IsAbsent("sY254") /\ IsPresent("sY255")
    \/ IsPresent("sY254") /\ IsAbsent("sY255")

AZFaDeleted == IsAbsent("sY84") /\ IsAbsent("sY86")

AZFbDeleted == IsAbsent("sY127") /\ IsAbsent("sY134")

AZFcDeleted == IsAbsent("sY254") /\ IsAbsent("sY255")

\* The 46,XX-male signature: sY14 absent and no basic marker tested present.
XXMaleSignature ==
    /\ IsAbsent("sY14")
    /\ \A k \in {"sY84", "sY86", "sY127", "sY134", "sY254", "sY255"} : ~IsPresent(k)

NotTestedLabel == "CRITICAL: ZFX/ZFY control marker not tested - cannot validate results"

ControlAbsentLabel ==
    "CRITICAL: ZFX/ZFY control marker absent - technical failure or sample issue"

SRYNotTestedLabel ==
    "CRITICAL: sY14 (SRY) marker not tested - cannot determine sex chromosome status"

MethodologicalErrorLabel ==
    "METHODOLOGICAL_ERROR: sY254 and sY255 results discordant (both should have same status)"

AZFbcLabels ==
    {"COMPLETE_AZFBC_DELETION_" \o st[1] \o t \o " (TESE: " \o st[2] \o ")" :
        st \in {<<"P5/distal_P1", "virtually_impossible">>,
                <<"P4/distal_P1", "may_be_positive">>,
                <<"undetermined_P4_P5", "unknown">>},
        t \in {"", "_TERMINAL"}}

InconsistentLabels ==
    {"INCONSISTENT_DATA: Expected present markers are absent: "
        \o Join(SelectSeq(EXPECTED_PRESENT_MARKERS, LAMBDA k : k \in T), ", ") :
        T \in (SUBSET Range(EXPECTED_PRESENT_MARKERS)) \ {{}}}

\* The fixed vocabulary of classification labels.
LabelFamilies ==
    {NotTestedLabel, ControlAbsentLabel, SRYNotTestedLabel,
     "46,XX_MALE_OR_COMPLETE_Y_CHROMOSOME_ABSENCE",
     MethodologicalErrorLabel,
     "COMPLETE_AZFABC_DELETION",
     "COMPLETE_AZFA_DELETION (TESE: virtually_impossible)",
     "PARTIAL_OR_ATYPICAL_AZFA_DELETION (partial_or_atypical)",
     "COMPLETE_AZFB_DELETION_P5/PROXIMAL_P1 (TESE: virtually_impossible)",
     "PARTIAL_AZFB_DELETION (sY1192 present, TESE: possible)",
     "AZFB_DELETION_ATYPICAL_PATTERN",
     "COMPLETE_AZFC_DELETION_B2/B4 (TESE: approximately_50_percent)",
     "TERMINAL_AZFC_DELETION (karyotype analysis recommended)",
     "AZFC_DELETION_UNDETERMINED_TYPE (sY160 not tested)",
     "PARTIAL_AZFC_GR/GR_DELETION (population-specific risk factor)",
     "MULTIPLE_DELETIONS_INCLUDING_GR/GR",
     "NO_DELETION_DETECTED",
     "UNCLASSIFIED_DELETION_PATTERN (manual review required)"}
    \cup AZFbcLabels \cup InconsistentLabels

(* ------------------------------------------------------------------ *)
(* C1                                                                  *)
(* ------------------------------------------------------------------ *)

\* C1: the classifier is total.  Every call returns a label of the fixed
\* families and never raises: whenever the extension analysis of AZFb or AZFc
\* yields a subtype whose label embeds details['TESE_prognosis'], that key is
\* set, and the classification of every panel is a member of LabelFamilies.
C1_Total ==
    /\ \A region \in {"AZFb", "AZFc"} :
           check_extension_markers(markers, region).subtype
               \in {"P5/proximal_P1", "partial", "b2/b4"}
           => "TESE_prognosis" \in DOMAIN check_extension_markers(markers, region).details
    /\ Done => classification # KeyError /\ classification \in LabelFamilies

\* A classification that embeds a looked-up prognosis has been returned.
C1_Witness ==
    /\ Done
    /\ AZFbDeleted
    /\ classification = "PARTIAL_AZFB_DELETION (sY1192 present, TESE: possible)"

(* ------------------------------------------------------------------ *)
(* C2                                                                  *)
(* ------------------------------------------------------------------ *)

\* C2 as claimed: a panel with sY254 and sY255 tested and differing is labelled
\* METHODOLOGICAL_ERROR whatever else it holds, failing controls included.
C2_DiscordanceAlwaysWins ==
    Done /\ Discordant => classification = MethodologicalErrorLabel

\* C2, amended: a panel that passes the control check and has sY254 and sY255
\* tested and differing is labelled METHODOLOGICAL_ERROR whatever else it
\* holds; when the control check fails, its CRITICAL label is returned instead.
C2_DiscordanceAfterControls ==
    Done /\ Discordant =>
        /\ ControlPasses => classification = MethodologicalErrorLabel
        /\ ~ControlPasses =>
               classification \in {NotTestedLabel, ControlAbsentLabel, SRYNotTestedLabel}

\* A discordant panel with sY14 absent and two other regions fully deleted has
\* been classified.
C2_Witness ==
    /\ Done
    /\ Discordant
    /\ ControlPasses
    /\ IsAbsent("sY14")
    /\ AZFaDeleted
    /\ AZFbDeleted
    /\ classification = MethodologicalErrorLabel

(* ------------------------------------------------------------------ *)
(* C3                                                                  *)
(* ------------------------------------------------------------------ *)

\* C3: a panel with neither the key ZFX/ZFY nor the key ZFX/Y is labelled
\* "CRITICAL: ZFX/ZFY control marker not tested", whatever else it holds.
C3_MissingControlWins ==
    Done /\ ~Tested("ZFX/ZFY") /\ ~Tested("ZFX/Y") => classification = NotTestedLabel

\* A panel without the control marker, without sY14 and with a discordant
\* sY254/sY255 pair has been classified.
C3_Witness ==
    /\ Done
    /\ ~Tested("ZFX/ZFY")
    /\ ~Tested("ZFX/Y")
    /\ ~Tested("sY14")
    /\ Discordant
    /\ AZFaDeleted
    /\ classification = NotTestedLabel

(* ------------------------------------------------------------------ *)
(* C4                                                                  *)
(* ------------------------------------------------------------------ *)

\* The panel with its control entry moved from the key ZFX/Y to the key ZFX/ZFY.
Rekeyed(m) ==
    [k \in (DOMAIN m \ {"ZFX/Y"}) \cup {"ZFX/ZFY"} |->
        IF k = "ZFX/ZFY" THEN m["ZFX/Y"] ELSE m[k]]

\* C4: alias equivalence.  A panel whose control marker is keyed ZFX/Y with
\* status present receives the classification of the same panel keyed ZFX/ZFY.
C4_AliasEquivalence ==
    Done /\ ~Tested("ZFX/ZFY") /\ IsPresent("ZFX/Y") =>
        classification = classify_y_chromosome_state(Rekeyed(markers))

\* An alias-keyed panel has passed the control check and matched the
\* 46,XX-male signature.
C4_Witness ==
    /\ Done
    /\ ~Tested("ZFX/ZFY")
    /\ IsPresent("ZFX/Y")
    /\ classification = "46,XX_MALE_OR_COMPLETE_Y_CHROMOSOME_ABSENCE"

\* An alias-keyed panel has reached the expected-present cross-check.
C4_WitnessNoDeletion ==
    /\ Done
    /\ ~Tested("ZFX/ZFY")
    /\ IsPresent("ZFX/Y")
    /\ classification = "NO_DELETION_DETECTED"

(* ------------------------------------------------------------------ *)
(* C5                                                                  *)
(* ------------------------------------------------------------------ *)

\* The panel cut down to the keys of S.
Restrict(m, S) == [k \in DOMAIN m \cap S |-> m[k]]

\* C5: a region is basic-deleted exactly when both of its basic markers are
\* keys of the panel with status absent; an untested basic marker makes the
\* result false, and the result depends on no marker outside the region's pair.
C5_BasicDeletion ==
    /\ check_basic_deletion(markers, "AZFa") <=> AZFaDeleted
    /\ check_basic_deletion(markers, "AZFb") <=> AZFbDeleted
    /\ check_basic_deletion(markers, "AZFc") <=> AZFcDeleted
    /\ ~Tested("sY84") \/ ~Tested("sY86") => ~check_basic_deletion(markers, "AZFa")
    /\ ~Tested("sY127") \/ ~Tested("sY134") => ~check_basic_deletion(markers, "AZFb")
    /\ ~Tested("sY254") \/ ~Tested("sY255") => ~check_basic_deletion(markers, "AZFc")
    /\ check_basic_deletion(markers, "AZFa")
           = check_basic_deletion(Restrict(markers, {"sY84", "sY86"}), "AZFa")
    /\ check_basic_deletion(markers, "AZFb")
           = check_basic_deletion(Restrict(markers, {"sY127", "sY134"}), "AZFb")
    /\ check_basic_deletion(markers, "AZFc")
           = check_basic_deletion(Restrict(markers, {"sY254", "sY255"}), "AZFc")

\* A panel with one AZFa marker absent and the other untested, and AZFb
\* deleted, has been classified as a deletion of AZFb alone.
C5_Witness ==
    /\ Done
    /\ IsAbsent("sY84")
    /\ ~Tested("sY86")
    /\ AZFbDeleted
    /\ classification = "AZFB_DELETION_ATYPICAL_PATTERN"

(* ------------------------------------------------------------------ *)
(* C6                                                                  *)
(* ------------------------------------------------------------------ *)

\* Scenario 2 as written: controls and sY160 present, all six basic markers present.
Scenario2Panel ==
    ValidControls @@ ("sY160" :> "present") @@ Retained({"AZFa", "AZFb", "AZFc"})

\* Scenario 2 with the AZFc pair absent and the four other basic markers present.
Scenario2DeletedPanel ==
    ValidControls @@ ("sY160" :> "present") @@ Deleted({"AZFc"})
        @@ Retained({"AZFa", "AZFb"})

B2B4Label == "COMPLETE_AZFC_DELETION_B2/B4 (TESE: approximately_50_percent)"

\* C6 as claimed: the panel with controls, sY160 and all six basic markers
\* present is labelled COMPLETE_AZFC_DELETION_B2/B4 with a TESE prognosis of
\* approximately 50 percent (the one label of the vocabulary that contains
\* COMPLETE_AZFC_DELETION_B2/B4).
C6_Scenario2AsClaimed ==
    Done /\ markers = Scenario2Panel => classification = B2B4Label

\* C6, amended: the panel with controls and sY160 present, sY254 and sY255
\* absent and the four other basic markers present is labelled
\* COMPLETE_AZFC_DELETION_B2/B4 (TESE: approximately_50_percent); the panel
\* with all six basic markers present is labelled NO_DELETION_DETECTED.
C6_Scenario2Amended ==
    /\ Done /\ markers = Scenario2DeletedPanel => classification = B2B4Label
    /\ Done /\ markers = Scenario2Panel => classification = "NO_DELETION_DETECTED"

\* The amended scenario panel has been classified.
C6_Witness ==
    /\ Done
    /\ markers = Scenario2DeletedPanel
    /\ classification = B2B4Label

(* ------------------------------------------------------------------ *)
(* C7                                                                  *)
(* ------------------------------------------------------------------ *)

\* Both AZFa boundaries as the guideline expects them.
AZFaBoundariesCorrect ==
    /\ IsPresent("sY82")
    /\ IsAbsent("sY1064")
    /\ IsPresent("sY88")
    /\ IsAbsent("sY1065") \/ IsAbsent("sY1182")

\* C7: with the control check passing, sY14 present, no sY254/sY255
\* discordance and AZFa the only basic-deleted region, the label is
\* COMPLETE_AZFA_DELETION (TESE: virtually_impossible) exactly when sY82 is
\* present, sY1064 absent, sY88 present and sY1065 or sY1182 absent; in every
\* other case it is PARTIAL_OR_ATYPICAL_AZFA_DELETION (partial_or_atypical).
C7_AZFaSubtype ==
    Done /\ ControlPasses /\ IsPresent("sY14") /\ ~Discordant
         /\ AZFaDeleted /\ ~AZFbDeleted /\ ~AZFcDeleted
    => classification =
           IF AZFaBoundariesCorrect
           THEN "COMPLETE_AZFA_DELETION (TESE: virtually_impossible)"
           ELSE "PARTIAL_OR_ATYPICAL_AZFA_DELETION (partial_or_atypical)"

\* Scenario 1: the distal boundary is shown by sY1065 alone.
Scenario1Panel ==
    ValidControls @@ Deleted({"AZFa"}) @@ ("sY82" :> "present")
        @@ ("sY1064" :> "absent") @@ ("sY88" :> "present") @@ ("sY1065" :> "absent")

\* Scenario 1 has been classified as a complete AZFa deletion.
C7_Witness ==
    /\ Done
    /\ markers = Scenario1Panel
    /\ classification = "COMPLETE_AZFA_DELETION (TESE: virtually_impossible)"

(* ------------------------------------------------------------------ *)
(* C8                                                                  *)
(* ------------------------------------------------------------------ *)

GrGrLabel == "PARTIAL_AZFC_GR/GR_DELETION (population-specific risk factor)"

\* C8: with the control check passing, sY14 present, no sY254/sY255
\* discordance, no region basic-deleted, sY1291 absent and sY1191 present, the
\* label is the isolated gr/gr label, whatever the other markers are.
C8_IsolatedGrGr ==
    Done /\ ControlPasses /\ IsPresent("sY14") /\ ~Discordant
         /\ ~AZFaDeleted /\ ~AZFbDeleted /\ ~AZFcDeleted
         /\ IsAbsent("sY1291") /\ IsPresent("sY1191")
    => classification = GrGrLabel

\* A gr/gr positive panel with absent expected-present markers has been
\* classified as gr/gr.
C8_Witness ==
    /\ Done
    /\ IsAbsent("sY1291")
    /\ IsPresent("sY1191")
    /\ IsAbsent("sY82")
    /\ IsAbsent("sY88")
    /\ IsAbsent("sY160")
    /\ classification = GrGrLabel

(* ------------------------------------------------------------------ *)
(* C9                                                                  *)
(* ------------------------------------------------------------------ *)

\* The expected-present markers that are tested with status absent, in the
\* order of the expected-present list.
AbsentExpected ==
    SelectSeq(<<"sY14", "sY82", "sY88", "sY105", "sY153", "sY160", "sY1191", "ZFX/ZFY">>,
              LAMBDA k : IsAbsent(k))

\* C9: with the control check passing, no 46,XX-male signature, no
\* sY254/sY255 discordance, no region basic-deleted and gr/gr negative, the
\* label is NO_DELETION_DETECTED exactly when no expected-present marker is
\* tested absent; otherwise it is the INCONSISTENT_DATA label listing exactly
\* the tested-but-absent expected-present markers in list order.
C9_NoDeletionCrossCheck ==
    Done /\ ControlPasses /\ ~XXMaleSignature /\ ~Discordant
         /\ ~AZFaDeleted /\ ~AZFbDeleted /\ ~AZFcDeleted
         /\ ~(IsAbsent("sY1291") /\ IsPresent("sY1191"))
    => classification =
           IF Len(AbsentExpected) = 0
           THEN "NO_DELETION_DETECTED"
           ELSE "INCONSISTENT_DATA: Expected present markers are absent: "
                \o Join(AbsentExpected, ", ")

\* A panel with three absent expected-present markers has been labelled
\* inconsistent, the markers listed in list order.
C9_Witness ==
    /\ Done
    /\ ~Tested("sY82")
    /\ classification
           = "INCONSISTENT_DATA: Expected present markers are absent: sY14, sY88, sY160"

\* A panel with an absent basic marker and untested expected-present markers
\* has been labelled NO_DELETION_DETECTED.
C9_WitnessNoDeletion ==
    /\ Done
    /\ IsAbsent("sY254")
    /\ ~Tested("sY82")
    /\ classification = "NO_DELETION_DETECTED"

(* ------------------------------------------------------------------ *)
(* C10                                                                 *)
(* ------------------------------------------------------------------ *)

\* The AZFbc label the guideline composes from sY116 and sY160.
ExpectedAZFbcLabel ==
    "COMPLETE_AZFBC_DELETION_"
    \o (IF IsAbsent("sY116") THEN "P5/distal_P1"
        ELSE IF IsPresent("sY116") THEN "P4/distal_P1"
        ELSE "undetermined_P4_P5")
    \o (IF IsAbsent("sY160") THEN "_TERMINAL" ELSE "")
    \o " (TESE: "
    \o (IF IsAbsent("sY116") THEN "virtually_impossible"
        ELSE IF IsPresent("sY116") THEN "may_be_positive"
        ELSE "unknown")
    \o ")"

\* C10: the AZFbc confirmation cannot fail once it is reached.  Whenever AZFb
\* and AZFc are both basic-deleted check_azfbc_deletion returns true, and a
\* panel that passes the control check, does not match the 46,XX-male
\* signature and has AZFb and AZFc deleted but not AZFa is labelled
\* COMPLETE_AZFBC_DELETION_<subtype>[_TERMINAL] (TESE: ...), the subtype fixed
\* by sY116 and the suffix by sY160; it never falls through to a later branch.
C10_AZFbcConfirmed ==
    /\ check_basic_deletion(markers, "AZFb") /\ check_basic_deletion(markers, "AZFc")
           => check_azfbc_deletion(markers)[1]
    /\ Done /\ ControlPasses /\ ~XXMaleSignature
            /\ AZFbDeleted /\ AZFcDeleted /\ ~AZFaDeleted
       => classification = ExpectedAZFbcLabel

\* A panel with AZFb and AZFc deleted, sY116 and sY160 absent has been
\* labelled as a terminal P5/distal-P1 AZFbc deletion.
C10_Witness ==
    /\ Done
    /\ AZFbDeleted
    /\ AZFcDeleted
    /\ ~AZFaDeleted
    /\ classification
           = "COMPLETE_AZFBC_DELETION_P5/distal_P1_TERMINAL (TESE: virtually_impossible)"

(* ------------------------------------------------------------------ *)
(* C11                                                                 *)
(* ------------------------------------------------------------------ *)

CombinedAbsenceLabel == "AZFABC_DELETION_WITH_46,XX_MALE_OR_Y_CHROMOSOME_ABSENCE"

\* C11: a panel that passes the control check and has AZFa, AZFb and AZFc all
\* basic-deleted is labelled COMPLETE_AZFABC_DELETION when sY14 is present and
\* 46,XX_MALE_OR_COMPLETE_Y_CHROMOSOME_ABSENCE when sY14 is absent; the label
\* AZFABC_DELETION_WITH_46,XX_MALE_OR_Y_CHROMOSOME_ABSENCE is returned for no
\* panel, the 46,XX-male test catching every panel that would receive it.
C11_AllRegionsDeleted ==
    /\ Done /\ ControlPasses /\ AZFaDeleted /\ AZFbDeleted /\ AZFcDeleted
       => /\ IsPresent("sY14") => classification = "COMPLETE_AZFABC_DELETION"
          /\ IsAbsent("sY14")
                 => classification = "46,XX_MALE_OR_COMPLETE_Y_CHROMOSOME_ABSENCE"
    /\ Done => classification # CombinedAbsenceLabel

\* A panel with all six basic markers and sY14 absent, and sY160 present, has
\* been labelled by the 46,XX-male test.
C11_Witness ==
    /\ Done
    /\ ControlPasses
    /\ AZFaDeleted
    /\ AZFbDeleted
    /\ AZFcDeleted
    /\ IsAbsent("sY14")
    /\ IsPresent("sY160")
    /\ classification = "46,XX_MALE_OR_COMPLETE_Y_CHROMOSOME_ABSENCE"

\* A panel with all six basic markers absent and sY14 present has been
\* labelled a complete AZFabc deletion.
C11_WitnessPresentSRY ==
    /\ Done
    /\ AZFaDeleted
    /\ AZFbDeleted
    /\ AZFcDeleted
    /\ IsPresent("sY14")
    /\ classification = "COMPLETE_AZFABC_DELETION"

====
